---- MODULE Spec2Model ----
(***************************************************************************)
(* Model of the agency package: the Agent tool-calling loop (agent.py) and *)
(* the Agency router (agency.py): seats, mailboxes, activation on          *)
(* delivery, shutdown.  Every thread of control of the program is a record *)
(* of `threads' (the loops started by Agency.run) or the main thread (the  *)
(* caller of `with Agency(...) as agency: agency.run(agent)').  One action *)
(* is one step between two points where CPython may switch threads and     *)
(* another thread can observe or change seat.thread, seat.inbox or         *)
(* agent.messages.                                                         *)
(***************************************************************************)
EXTENDS Naturals, Sequences, FiniteSets

\* ------------------------------------------------------------------ bounds
\* number of tool invocations the backend requests, over the whole run
MaxInvocations == 2
\* number of tool invocations in one backend reply
MaxCalls == 2
\* number of tool-requesting replies per agent in the delivery races
RaceReplies == 1
\* number of parameters of a callable given to tool()
MaxParams == 3
\* number of tool invocations over a run of the status-change callbacks
StatusInvocations == 2
\* number of activations of one seat for which a clone is made
MaxClones == 2

\* ------------------------------------------------- the registered agents
\* Agency.__init__: one seat per agent, in registration order
NumSeats == 3
Seats == 1..NumSeats
\* Agent.id (secrets.token_hex(3)); "zz" is an id no agent has
AgentId == << <<"a1">>, <<"b2">>, <<"c3">> >>
AgentName == <<"Alice", "Bob", "Hannah">>
\* Agent.tags
AgentTags == << {<<"solo">>}, {<<"team">>}, {<<"team">>} >>
\* recipient strings a model may pass to SendMessage, as character groups:
\* an agent id, or "#" followed by the channel name
Recipients == { <<"a1">>, <<"b2">>, <<"c3">>, <<"zz">>,
                <<"#", "team">>, <<"#", "solo">>, <<"#", "none">> }

None == 0

VARIABLES
    seatThread,   \* seat.thread: None or the Thread object (index in threads)
    inbox,        \* seat.inbox: sequence of (sender, body)
    messages,     \* agent.messages, shared by every with_tools clone
    threads,      \* the Thread objects created by Agency.run, in creation order
    mainpc,       \* position of the main thread
    mainI,        \* __exit__: index of the seat being looked at
    mainH,        \* __exit__: the Thread object loaded for join()
    ntool,        \* number of tool invocations the backend has requested
    enqlog,       \* history: per seat, every (sender, body) ever appended to its inbox
    sentActive,   \* history: (seat, body) of deliveries that found the seat active and returned a status
    chanlog,      \* history: channel deliveries that reached the enqueue loop
    epoch,        \* history: per seat, number of times its loop cleared the handle
    status,       \* per seat, the values on_agent_status_change was called with, in order
    extended,     \* per seat, the clones agent.with_tools made for its activations, in order
    signature,    \* tool(): inspect.signature(function).parameters, in declaration order
    tpos,         \* tool(): position of the `for' loop in signature.parameters, 0 outside tool()
    properties,   \* tool(): the `properties' dict, as its items in insertion order
    required,     \* tool(): the `required' list
    schema        \* tool(): function.schema, NoSchema until it is assigned

\* the callable has no attribute `schema' yet
NoSchema == [type |-> "unset"]

toolvars == <<signature, tpos, properties, required, schema>>

vars == <<seatThread, inbox, messages, threads, mainpc, mainI, mainH,
          ntool, enqlog, sentActive, chanlog, epoch, status, extended, toolvars>>

\* --------------------------------------------------------------- helpers
Range(f) == { f[i] : i \in DOMAIN f }

\* recipient.startswith("#")
StartsWithHash(recipient) == Len(recipient) > 0 /\ recipient[1] = "#"

\* Agency.find_seat: first seat whose agent has the id, else None
find_seat(agent_id) ==
    IF \E s \in Seats : AgentId[s] = agent_id
    THEN CHOOSE s \in Seats : /\ AgentId[s] = agent_id
                              /\ \A r \in Seats : AgentId[r] = agent_id => s <= r
    ELSE None

\* find_channel_seats without the `seat.agent is not exclude' test
find_channel_seats_NoExclude(channel, exclude) ==
    SelectSeq([i \in Seats |-> i], LAMBDA s : channel \in AgentTags[s])

\* Agency.find_channel_seats: the seats tagged with the channel, in seat
\* order, without the excluded agent
find_channel_seats(channel, exclude) ==
    SelectSeq([i \in Seats |-> i],
              LAMBDA s : channel \in AgentTags[s] /\ s # exclude)

\* the strings send_message returns
AgentNotFound(recipient) == [kind |-> "agent_not_found", recipient |-> recipient]
ChannelNotFound(channel) == [kind |-> "channel_not_found", channel |-> channel]
SentToAgent(seat) == [kind |-> "sent_agent", name |-> AgentName[seat], id |-> AgentId[seat]]
SentToChannel(channel, seats) ==
    [kind |-> "sent_channel", channel |-> channel, count |-> Len(seats),
     names |-> [i \in 1..Len(seats) |-> AgentName[seats[i]]]]

\* the turns of a transcript
UserTurn(sender, body) == [role |-> "user", sender |-> sender, body |-> body]
AssistantTurn(ids) == [role |-> "assistant", tool_calls |-> ids]
ToolTurn(id, content) == [role |-> "tool", tool_call_id |-> id, content |-> content]

\* a Thread object and the locals of the code it runs
NewThread(seat, obs, cause) ==
    [seat |-> seat, pc |-> "new",
     ids |-> <<>>, ci |-> 0,          \* message.tool_calls (correlation ids), loop index
     di |-> 0,                        \* handle_before_iteration: iterator position
     rcpt |-> <<>>, targets |-> <<>>, si |-> 0,   \* send_message: recipient, seats, loop index
     seen |-> {},                     \* history: targets found active by this call
     sawEpoch |-> 0,                  \* history: idle period of the target seen by the check
     fault |-> "none",                \* the exception that ended the thread
     hooks |-> <<>>,                  \* history: the hooks Agent.run has called, in order
     own |-> {},                      \* history: bodies this loop has enqueued for its own seat
     cause |-> cause,                 \* history: (sender, body, recipient) of the delivery that created the Thread
     obs |-> obs]                     \* history: idle period of the seat observed by the creator

Terminated(t) == threads[t].pc \in {"done", "raised"}
LoopPcs == {"drain", "clear", "await", "dispatch",
            "send_append", "send_check", "run_create", "run_start"}
SendPcs == {"send_append", "send_check", "run_create", "run_start"}

\* --------------------------------------------------------------- initial
Init ==
    /\ seatThread = [s \in Seats |-> None]
    /\ inbox = [s \in Seats |-> <<>>]
    /\ messages = [s \in Seats |-> <<>>]
    /\ threads = <<>>
    /\ mainpc = "init"
    /\ mainI = 0
    /\ mainH = None
    /\ ntool = 0
    /\ enqlog = [s \in Seats |-> <<>>]
    /\ sentActive = {}
    /\ chanlog = {}
    /\ epoch = [s \in Seats |-> 0]
    /\ status = [s \in Seats |-> <<>>]
    /\ extended = [s \in Seats |-> <<>>]
    /\ signature = <<>>
    /\ tpos = 0
    /\ properties = <<>>
    /\ required = <<>>
    /\ schema = NoSchema

\* ------------------------------------------------------------ Agent.run
\* variant of AfterCall in which on_after_iteration is called after every
\* invocation
AfterCall_HookPerCall(r) ==
    IF r.ci < Len(r.ids)
    THEN [r EXCEPT !.pc = "dispatch", !.ci = @ + 1,
                   !.hooks = Append(@, "after"),
                   !.rcpt = <<>>, !.targets = <<>>, !.si = 0, !.seen = {}, !.sawEpoch = 0]
    ELSE [r EXCEPT !.pc = "drain", !.ci = 0, !.ids = <<>>, !.di = 0,
                   !.hooks = Append(@, "after"),
                   !.rcpt = <<>>, !.targets = <<>>, !.si = 0, !.seen = {}, !.sawEpoch = 0]

\* end of the handling of one tool invocation: next invocation of the
\* reply, or on_after_iteration and back to the top of the while loop
AfterCall(r) ==
    IF r.ci < Len(r.ids)
    THEN [r EXCEPT !.pc = "dispatch", !.ci = @ + 1,
                   !.rcpt = <<>>, !.targets = <<>>, !.si = 0, !.seen = {}, !.sawEpoch = 0]
    ELSE [r EXCEPT !.pc = "drain", !.ci = 0, !.ids = <<>>, !.di = 0,
                   !.hooks = Append(@, "after"),
                   !.rcpt = <<>>, !.targets = <<>>, !.si = 0, !.seen = {}, !.sawEpoch = 0]

\* handle_before_iteration, one pass of `for sender, body in seat.inbox':
\* the list iterator yields the entry at its position while the position is
\* inside the list, and the body appends the notification turn
DrainNext(t) ==
    LET r == threads[t]
        s == r.seat
    IN  /\ r.pc = "drain"
        /\ IF r.di < Len(inbox[s])
           THEN /\ messages' = [messages EXCEPT ![s] =
                       Append(@, UserTurn(inbox[s][r.di + 1][1], inbox[s][r.di + 1][2]))]
                /\ threads' = [threads EXCEPT ![t].di = @ + 1]
           ELSE /\ threads' = [threads EXCEPT ![t].pc = "clear"]
                /\ UNCHANGED messages
        /\ UNCHANGED <<seatThread, inbox, mainpc, mainI, mainH, ntool,
                       enqlog, sentActive, chanlog, epoch, status, extended, toolvars>>

\* handle_before_iteration: seat.inbox.clear(), then
\* on_agent_before_iteration; back in Agent.run the request is sent to the
\* backend (client.chat.completions.create) and the loop waits for the reply
Clear(t) ==
    LET r == threads[t]
    IN  /\ r.pc = "clear"
        /\ inbox' = [inbox EXCEPT ![r.seat] = <<>>]
        /\ threads' = [threads EXCEPT ![t].pc = "await", ![t].di = 0,
                                      ![t].hooks = Append(@, "before")]
        /\ UNCHANGED <<seatThread, messages, mainpc, mainI, mainH, ntool,
                       enqlog, sentActive, chanlog, epoch, status, extended, toolvars>>

\* variant of ReplyFinal in which the while loop goes on after the reply
ReplyFinal_Loops(t) ==
    LET r == threads[t]
    IN  /\ r.pc = "await"
        /\ messages' = [messages EXCEPT ![r.seat] = Append(@, AssistantTurn(<<>>))]
        /\ threads' = [threads EXCEPT ![t].pc = "drain",
                                      ![t].hooks = Append(@, "message")]
        /\ UNCHANGED <<seatThread, inbox, mainpc, mainI, mainH, ntool,
                       enqlog, sentActive, chanlog, epoch, status, extended, toolvars>>

\* the backend replies without tool invocations: the reply is appended,
\* on_message is called and Agent.run returns
ReplyFinal(t) ==
    LET r == threads[t]
    IN  /\ r.pc = "await"
        /\ messages' = [messages EXCEPT ![r.seat] = Append(@, AssistantTurn(<<>>))]
        /\ threads' = [threads EXCEPT ![t].pc = "finish",
                                      ![t].hooks = Append(@, "message")]
        /\ UNCHANGED <<seatThread, inbox, mainpc, mainI, mainH, ntool,
                       enqlog, sentActive, chanlog, epoch, status, extended, toolvars>>

\* the backend replies with k tool invocations; their correlation ids are
\* fresh (agent, position of the reply in the transcript, position in the
\* reply), and the reply is appended to the transcript
ReplyToolsK(t, maxk, budget) ==
    LET r == threads[t]
        s == r.seat
    IN  /\ r.pc = "await"
        /\ \E k \in 1..maxk :
             LET ids == [j \in 1..k |-> <<s, Len(messages[s]) + 1, j>>]
             IN  /\ ntool + k <= budget
                 /\ messages' = [messages EXCEPT ![s] = Append(@, AssistantTurn(ids))]
                 /\ threads' = [threads EXCEPT ![t].pc = "dispatch",
                                               ![t].ids = ids, ![t].ci = 1]
                 /\ ntool' = ntool + k
        /\ UNCHANGED <<seatThread, inbox, mainpc, mainI, mainH,
                       enqlog, sentActive, chanlog, epoch, status, extended, toolvars>>

\* a reply of at most MaxCalls invocations, MaxInvocations over the run
ReplyTools(t) == ReplyToolsK(t, MaxCalls, MaxInvocations)

\* tool_map.get(name) finds nothing: an "Unknown tool" result, continue
DispatchUnknown(t) ==
    LET r == threads[t]
    IN  /\ r.pc = "dispatch"
        /\ messages' = [messages EXCEPT ![r.seat] =
               Append(@, ToolTurn(r.ids[r.ci], [kind |-> "unknown_tool"]))]
        /\ threads' = [threads EXCEPT ![t] = AfterCall(r)]
        /\ UNCHANGED <<seatThread, inbox, mainpc, mainI, mainH, ntool,
                       enqlog, sentActive, chanlog, epoch, status, extended, toolvars>>

\* the tool is known and json.loads(arguments) raises: nothing in Agent.run
\* or in target catches it, so the thread ends with the exception
DispatchBadArgs(t) ==
    LET r == threads[t]
    IN  /\ r.pc = "dispatch"
        /\ threads' = [threads EXCEPT ![t].pc = "raised", ![t].fault = "args"]
        /\ UNCHANGED <<seatThread, inbox, messages, mainpc, mainI, mainH, ntool,
                       enqlog, sentActive, chanlog, epoch, status, extended, toolvars>>

\* on_tool_call(function, **arguments) of one of the agent's own tools returns
DispatchToolReturns(t) ==
    LET r == threads[t]
    IN  /\ r.pc = "dispatch"
        /\ messages' = [messages EXCEPT ![r.seat] =
               Append(@, ToolTurn(r.ids[r.ci], [kind |-> "result"]))]
        /\ threads' = [threads EXCEPT ![t] = AfterCall(r)]
        /\ UNCHANGED <<seatThread, inbox, mainpc, mainI, mainH, ntool,
                       enqlog, sentActive, chanlog, epoch, status, extended, toolvars>>

\* on_tool_call(function, **arguments) of one of the agent's own tools
\* raises: the exception leaves Agent.run and target
DispatchToolRaises(t) ==
    LET r == threads[t]
    IN  /\ r.pc = "dispatch"
        /\ threads' = [threads EXCEPT ![t].pc = "raised", ![t].fault = "tool"]
        /\ UNCHANGED <<seatThread, inbox, messages, mainpc, mainI, mainH, ntool,
                       enqlog, sentActive, chanlog, epoch, status, extended, toolvars>>

\* ------------------------------------------- Agency.create_toolkit.send_message
\* the body the model writes is the text of this invocation; every
\* invocation carries a different one
BodyOf(r) == r.ids[r.ci]

\* SendMessage is dispatched: the recipient is resolved.  No seat, or no
\* channel member: the not-found string is the tool result.  Otherwise the
\* seats to deliver to are fixed for the rest of the call.
DispatchSendTo(t, recipients) ==
    LET r == threads[t]
        s == r.seat
    IN  /\ r.pc = "dispatch"
        /\ \E recipient \in recipients :
             LET channel == Tail(recipient)
                 seats == IF StartsWithHash(recipient)
                          THEN find_channel_seats(channel, s)
                          ELSE IF find_seat(recipient) = None THEN <<>>
                               ELSE <<find_seat(recipient)>>
                 notfound == IF StartsWithHash(recipient)
                             THEN ChannelNotFound(channel)
                             ELSE AgentNotFound(recipient)
             IN  IF seats = <<>>
                 THEN /\ messages' = [messages EXCEPT ![s] =
                             Append(@, ToolTurn(r.ids[r.ci], notfound))]
                      /\ threads' = [threads EXCEPT ![t] = AfterCall(r)]
                      /\ UNCHANGED chanlog
                 ELSE /\ threads' = [threads EXCEPT ![t].pc = "send_append",
                                         ![t].rcpt = recipient,
                                         ![t].targets = seats, ![t].si = 1]
                      /\ chanlog' = IF StartsWithHash(recipient)
                                    THEN chanlog \cup {[from |-> s, channel |-> channel,
                                                        body |-> BodyOf(r)]}
                                    ELSE chanlog
                      /\ UNCHANGED messages
        /\ UNCHANGED <<seatThread, inbox, mainpc, mainI, mainH, ntool,
                       enqlog, sentActive, epoch, status, extended, toolvars>>

\* the model may pass any of the recipient strings
DispatchSend(t) == DispatchSendTo(t, Recipients)

\* seat.inbox.append((agent, body))
SendAppend(t) ==
    LET r == threads[t]
        target == r.targets[r.si]
    IN  /\ r.pc = "send_append"
        /\ inbox' = [inbox EXCEPT ![target] = Append(@, <<r.seat, BodyOf(r)>>)]
        /\ enqlog' = [enqlog EXCEPT ![target] = Append(@, <<r.seat, BodyOf(r)>>)]
        /\ threads' = [threads EXCEPT ![t].pc = "send_check",
                                      ![t].own = IF target = r.seat
                                                 THEN @ \cup {BodyOf(r)} ELSE @]
        /\ UNCHANGED <<seatThread, messages, mainpc, mainI, mainH, ntool,
                       sentActive, chanlog, epoch, status, extended, toolvars>>

\* the status string of a delivery that reached its last seat
SentStatus(r) ==
    IF StartsWithHash(r.rcpt) THEN SentToChannel(Tail(r.rcpt), r.targets)
    ELSE SentToAgent(r.targets[1])

\* the rest of send_message after one seat is handled, for the record r of
\* thread t in the thread table base: next seat of the channel, or return
\* the status, which Agent.run appends as the tool result
SendContinue(t, r, base) ==
    IF r.si < Len(r.targets)
    THEN /\ threads' = [base EXCEPT ![t] = [r EXCEPT !.pc = "send_append", !.si = @ + 1]]
         /\ UNCHANGED <<messages, sentActive>>
    ELSE /\ threads' = [base EXCEPT ![t] = AfterCall(r)]
         /\ messages' = [messages EXCEPT ![r.seat] =
                Append(@, ToolTurn(r.ids[r.ci], SentStatus(r)))]
         /\ sentActive' = sentActive \cup { <<m, BodyOf(r)>> : m \in r.seen }

\* `if seat.thread is None': an idle seat is activated, an active one is not
SendCheck(t) ==
    LET r == threads[t]
        target == r.targets[r.si]
    IN  /\ r.pc = "send_check"
        /\ IF seatThread[target] = None
           THEN /\ threads' = [threads EXCEPT ![t].pc = "run_create",
                                              ![t].sawEpoch = epoch[target]]
                /\ UNCHANGED <<messages, sentActive>>
           ELSE SendContinue(t, [r EXCEPT !.seen = @ \cup {target}], threads)
        /\ UNCHANGED <<seatThread, inbox, mainpc, mainI, mainH, ntool,
                       enqlog, chanlog, epoch, status, extended, toolvars>>

\* ----------------------------------------------------------- Agency.run
\* seat.thread = threading.Thread(target=target, ...)
RunCreate(t) ==
    LET r == threads[t]
        target == r.targets[r.si]
    IN  /\ r.pc = "run_create"
        /\ threads' = Append([threads EXCEPT ![t].pc = "run_start"],
                             NewThread(target, r.sawEpoch, <<r.seat, BodyOf(r), r.rcpt>>))
        /\ seatThread' = [seatThread EXCEPT ![target] = Len(threads) + 1]
        /\ UNCHANGED <<inbox, messages, mainpc, mainI, mainH, ntool,
                       enqlog, sentActive, chanlog, epoch, status, extended, toolvars>>

\* what seat.thread.start() does with the object h it finds in seat.thread:
\* "started", or the exception it raises
StartOutcome(h) ==
    IF h = None THEN "start_none"
    ELSE IF threads[h].pc = "new" THEN "started"
    ELSE "start_twice"

\* seat.thread.start(), then on_agent_status_change(seat, True) and back in
\* send_message.  seat.thread is read again here: None raises
\* AttributeError, a Thread that was started before raises RuntimeError,
\* and either exception ends the calling loop.
RunStart(t) ==
    LET r == threads[t]
        target == r.targets[r.si]
        h == seatThread[target]
    IN  /\ r.pc = "run_start"
        /\ IF StartOutcome(h) = "started"
           THEN /\ SendContinue(t, r, [threads EXCEPT ![h].pc = "drain"])
                /\ status' = [status EXCEPT ![target] = Append(@, TRUE)]
           ELSE /\ threads' = [threads EXCEPT ![t].pc = "raised",
                                              ![t].fault = StartOutcome(h)]
                /\ UNCHANGED <<messages, sentActive, status>>
        /\ UNCHANGED <<seatThread, inbox, mainpc, mainI, mainH, ntool,
                       enqlog, chanlog, epoch, extended, toolvars>>

\* target, after extended.run returned: seat.thread = None, then
\* on_agent_status_change(seat, False), and the thread ends
Finish(t) ==
    LET r == threads[t]
    IN  /\ r.pc = "finish"
        /\ seatThread' = [seatThread EXCEPT ![r.seat] = None]
        /\ epoch' = [epoch EXCEPT ![r.seat] = @ + 1]
        /\ threads' = [threads EXCEPT ![t].pc = "done"]
        /\ status' = [status EXCEPT ![r.seat] = Append(@, FALSE)]
        /\ UNCHANGED <<inbox, messages, mainpc, mainI, mainH, ntool,
                       enqlog, sentActive, chanlog, extended, toolvars>>

\* ------------------------------------------------------ the main thread
\* the agent the main thread runs: the first one registered
MainAgent == 1

\* agency.run(agent) inside the with block: seat.thread = Thread(...)
MainRunCreate ==
    /\ mainpc = "init"
    /\ threads' = Append(threads, NewThread(MainAgent, epoch[MainAgent], <<>>))
    /\ seatThread' = [seatThread EXCEPT ![MainAgent] = Len(threads) + 1]
    /\ mainpc' = "run_start"
    /\ UNCHANGED <<inbox, messages, mainI, mainH, ntool,
                   enqlog, sentActive, chanlog, epoch, status, extended, toolvars>>

\* agency.run(agent): seat.thread.start(), then
\* on_agent_status_change(seat, True); the with block ends and __exit__ is
\* entered whether or not start() raised
MainRunStart ==
    LET h == seatThread[threads[1].seat]
    IN  /\ mainpc = "run_start"
        /\ IF StartOutcome(h) = "started"
           THEN /\ threads' = [threads EXCEPT ![h].pc = "drain"]
                /\ status' = [status EXCEPT ![MainAgent] = Append(@, TRUE)]
           ELSE UNCHANGED <<threads, status>>
        /\ mainpc' = "exit_check"
        /\ mainI' = 1
        /\ UNCHANGED <<seatThread, inbox, messages, mainH, ntool,
                       enqlog, sentActive, chanlog, epoch, extended, toolvars>>

\* __exit__: the next seat of `for seat in self.seats', or return
ExitAdvance ==
    IF mainI < NumSeats
    THEN mainpc' = "exit_check" /\ mainI' = mainI + 1
    ELSE mainpc' = "exited" /\ mainI' = 0

\* __exit__: `if seat.thread is not None'
MainExitCheck ==
    /\ mainpc = "exit_check"
    /\ IF seatThread[mainI] # None
       THEN mainpc' = "join_load" /\ mainI' = mainI
       ELSE ExitAdvance
    /\ UNCHANGED <<seatThread, inbox, messages, threads, mainH, ntool,
                   enqlog, sentActive, chanlog, epoch, status, extended, toolvars>>

\* __exit__: seat.thread.join() reads seat.thread again and calls join on
\* what it finds: None raises AttributeError, a Thread that was not
\* started raises RuntimeError
MainJoinLoad ==
    LET h == seatThread[mainI]
    IN  /\ mainpc = "join_load"
        /\ IF h # None /\ threads[h].pc # "new"
           THEN mainpc' = "join_wait" /\ mainH' = h
           ELSE mainpc' = "exit_raised" /\ mainH' = None
        /\ UNCHANGED <<seatThread, inbox, messages, threads, mainI, ntool,
                       enqlog, sentActive, chanlog, epoch, status, extended, toolvars>>

\* __exit__: join() returns when the thread has ended
MainJoinWait ==
    /\ mainpc = "join_wait"
    /\ Terminated(mainH)
    /\ ExitAdvance
    /\ mainH' = None
    /\ UNCHANGED <<seatThread, inbox, messages, threads, ntool,
                   enqlog, sentActive, chanlog, epoch, status, extended, toolvars>>

\* --------------------------------------------------------- specification
Next ==
    \/ MainRunCreate
    \/ MainRunStart
    \/ MainExitCheck
    \/ MainJoinLoad
    \/ MainJoinWait
    \/ \E t \in DOMAIN threads : DrainNext(t)
    \/ \E t \in DOMAIN threads : Clear(t)
    \/ \E t \in DOMAIN threads : ReplyFinal(t)
    \/ \E t \in DOMAIN threads : ReplyTools(t)
    \/ \E t \in DOMAIN threads : DispatchUnknown(t)
    \/ \E t \in DOMAIN threads : DispatchBadArgs(t)
    \/ \E t \in DOMAIN threads : DispatchToolReturns(t)
    \/ \E t \in DOMAIN threads : DispatchToolRaises(t)
    \/ \E t \in DOMAIN threads : DispatchSend(t)
    \/ \E t \in DOMAIN threads : SendAppend(t)
    \/ \E t \in DOMAIN threads : SendCheck(t)
    \/ \E t \in DOMAIN threads : RunCreate(t)
    \/ \E t \in DOMAIN threads : RunStart(t)
    \/ \E t \in DOMAIN threads : Finish(t)

Spec == Init /\ [][Next]_vars

\* ------------------------------------------------- the delivery races
\* The runs in which every tool invocation is a SendMessage, one invocation
\* per reply and RaceReplies such replies per agent, Alice writing to
\* '#team', Bob and Hannah writing to Hannah, and the main thread staying
\* inside the `with' block: enough for two loops of one seat to be followed
\* by one more delivery to it.
RaceRecipients == << { <<"#", "team">> }, { <<"c3">> }, { <<"c3">> } >>

\* the replies of the transcript of seat s that request tools
ToolReplies(s) ==
    { p \in DOMAIN messages[s] :
          messages[s][p].role = "assistant" /\ messages[s][p].tool_calls # <<>> }

RaceReplyTools(t) ==
    /\ Cardinality(ToolReplies(threads[t].seat)) < RaceReplies
    /\ ReplyToolsK(t, 1, NumSeats * RaceReplies)

RaceDispatchSend(t) == DispatchSendTo(t, RaceRecipients[threads[t].seat])

RaceNext ==
    \/ MainRunCreate
    \/ MainRunStart
    \/ \E t \in DOMAIN threads : DrainNext(t)
    \/ \E t \in DOMAIN threads : Clear(t)
    \/ \E t \in DOMAIN threads : ReplyFinal(t)
    \/ \E t \in DOMAIN threads : RaceReplyTools(t)
    \/ \E t \in DOMAIN threads : RaceDispatchSend(t)
    \/ \E t \in DOMAIN threads : SendAppend(t)
    \/ \E t \in DOMAIN threads : SendCheck(t)
    \/ \E t \in DOMAIN threads : RunCreate(t)
    \/ \E t \in DOMAIN threads : RunStart(t)
    \/ \E t \in DOMAIN threads : Finish(t)

RaceSpec == Init /\ [][RaceNext]_vars

\* ------------------------------------------- the status-change callbacks
\* RunStart, MainRunStart and Finish take the call of
\* on_agent_status_change in the same step as the statement before it.  The
\* callback is called outside any lock, by the starting thread after
\* start() and by the loop's thread after seat.thread = None, so other
\* threads run between the statement and the callback.  The actions below
\* take the two separately, with the thread at "run_status" or
\* "idle_status" in between; every tool invocation is a SendMessage, one
\* per reply, and the steps of __exit__ are left out.

\* Agency.run called from send_message: seat.thread.start()
StartThread(t) ==
    LET r == threads[t]
        target == r.targets[r.si]
        h == seatThread[target]
    IN  /\ r.pc = "run_start"
        /\ threads' = IF StartOutcome(h) = "started"
                      THEN [threads EXCEPT ![h].pc = "drain", ![t].pc = "run_status"]
                      ELSE [threads EXCEPT ![t].pc = "raised",
                                           ![t].fault = StartOutcome(h)]
        /\ UNCHANGED <<seatThread, inbox, messages, mainpc, mainI, mainH, ntool,
                       enqlog, sentActive, chanlog, epoch, status, extended, toolvars>>

\* Agency.run called from send_message: on_agent_status_change(seat, True),
\* and back in send_message
RunStatus(t) ==
    LET r == threads[t]
        target == r.targets[r.si]
    IN  /\ r.pc = "run_status"
        /\ status' = [status EXCEPT ![target] = Append(@, TRUE)]
        /\ SendContinue(t, r, threads)
        /\ UNCHANGED <<seatThread, inbox, mainpc, mainI, mainH, ntool,
                       enqlog, chanlog, epoch, extended, toolvars>>

\* target, after extended.run returned: seat.thread = None
ClearHandle(t) ==
    LET r == threads[t]
    IN  /\ r.pc = "finish"
        /\ seatThread' = [seatThread EXCEPT ![r.seat] = None]
        /\ epoch' = [epoch EXCEPT ![r.seat] = @ + 1]
        /\ threads' = [threads EXCEPT ![t].pc = "idle_status"]
        /\ UNCHANGED <<inbox, messages, mainpc, mainI, mainH, ntool,
                       enqlog, sentActive, chanlog, status, extended, toolvars>>

\* target: on_agent_status_change(seat, False), and the thread ends
IdleStatus(t) ==
    LET r == threads[t]
    IN  /\ r.pc = "idle_status"
        /\ status' = [status EXCEPT ![r.seat] = Append(@, FALSE)]
        /\ threads' = [threads EXCEPT ![t].pc = "done"]
        /\ UNCHANGED <<seatThread, inbox, messages, mainpc, mainI, mainH, ntool,
                       enqlog, sentActive, chanlog, epoch, extended, toolvars>>

\* agency.run(agent) inside the with block: seat.thread.start()
MainStartThread ==
    LET h == seatThread[threads[1].seat]
    IN  /\ mainpc = "run_start"
        /\ StartOutcome(h) = "started"
        /\ threads' = [threads EXCEPT ![h].pc = "drain"]
        /\ mainpc' = "run_status"
        /\ UNCHANGED <<seatThread, inbox, messages, mainI, mainH, ntool,
                       enqlog, sentActive, chanlog, epoch, status, extended, toolvars>>

\* agency.run(agent) inside the with block:
\* on_agent_status_change(seat, True); the with block ends
MainRunStatus ==
    /\ mainpc = "run_status"
    /\ status' = [status EXCEPT ![MainAgent] = Append(@, TRUE)]
    /\ mainpc' = "exit_check"
    /\ mainI' = 1
    /\ UNCHANGED <<seatThread, inbox, messages, threads, mainH, ntool,
                   enqlog, sentActive, chanlog, epoch, extended, toolvars>>

StatusReplyTools(t) == ReplyToolsK(t, 1, StatusInvocations)

StatusNext ==
    \/ MainRunCreate
    \/ MainStartThread
    \/ MainRunStatus
    \/ \E t \in DOMAIN threads : DrainNext(t)
    \/ \E t \in DOMAIN threads : Clear(t)
    \/ \E t \in DOMAIN threads : ReplyFinal(t)
    \/ \E t \in DOMAIN threads : StatusReplyTools(t)
    \/ \E t \in DOMAIN threads : DispatchSend(t)
    \/ \E t \in DOMAIN threads : SendAppend(t)
    \/ \E t \in DOMAIN threads : SendCheck(t)
    \/ \E t \in DOMAIN threads : RunCreate(t)
    \/ \E t \in DOMAIN threads : StartThread(t)
    \/ \E t \in DOMAIN threads : RunStatus(t)
    \/ \E t \in DOMAIN threads : ClearHandle(t)
    \/ \E t \in DOMAIN threads : IdleStatus(t)

StatusSpec == Init /\ [][StatusNext]_vars

\* ----------------------------------------------------- Agent.with_tools
\* The clone Agency.run makes for an activation.  Nothing in the router
\* reads the clone's id (find_seat, the roster and the status strings use
\* seat.agent), so the actions above leave `extended' alone; the actions
\* below are the first two statements of Agency.run, for up to MaxClones
\* activations of each seat.

\* values of secrets.token_hex(3): the ids of the registered agents and one
\* that no registered agent has
TokenHex == Range(AgentId) \cup { <<"d4">> }

\* Agent.__init__ called by with_tools for the agent of seat s:
\* self.id = secrets.token_hex(3), name and tags from the arguments
AgentInit(s, id) ==
    [id |-> id, name |-> AgentName[s], tags |-> AgentTags[s]]

\* Agency.run(agent): seat = self.find_seat(agent.id), then
\* extended = agent.with_tools(self.create_toolkit(agent))
WithTools(s) ==
    /\ find_seat(AgentId[s]) = s
    /\ Len(extended[s]) < MaxClones
    /\ \E id \in TokenHex :
           extended' = [extended EXCEPT ![s] = Append(@, AgentInit(s, id))]
    /\ UNCHANGED <<seatThread, inbox, messages, threads, mainpc, mainI, mainH,
                   ntool, enqlog, sentActive, chanlog, epoch, status, toolvars>>

CloneNext == \E s \in Seats : WithTools(s)

CloneSpec == Init /\ [][CloneNext]_vars

\* ------------------------------------------------------------- tool()
\* The decorator of tool.py applied to one callable.  A parameter of the
\* callable is its name, whether it has a default value, whether it is
\* keyword-only, and its annotation (str, int or none).
ParamNames == {"recipient", "body", "limit"}
ParamHints == {"str", "int", "none"}
Params == [name : ParamNames, has_default : BOOLEAN,
           keyword_only : BOOLEAN, hint : ParamHints]

\* the parameter lists Python accepts in a `def': distinct names, the
\* keyword-only parameters last, and among the others no parameter without
\* default after one with a default
ValidSignature(sig) ==
    /\ \A i, j \in DOMAIN sig : i # j => sig[i].name # sig[j].name
    /\ \A i, j \in DOMAIN sig :
           i < j => /\ sig[i].keyword_only => sig[j].keyword_only
                    /\ (sig[i].has_default /\ ~sig[j].keyword_only)
                           => sig[j].has_default

Signatures ==
    UNION { { sig \in [1..n -> Params] : ValidSignature(sig) } : n \in 0..MaxParams }

\* type_map.get(hints.get(parameter_name), "string")
type_map(hint) == IF hint = "int" THEN "integer" ELSE "string"

\* tool(function) is called: the signature is read, properties = {} and
\* required = []
ToolInit ==
    /\ seatThread = [s \in Seats |-> None]
    /\ inbox = [s \in Seats |-> <<>>]
    /\ messages = [s \in Seats |-> <<>>]
    /\ threads = <<>>
    /\ mainpc = "init"
    /\ mainI = 0
    /\ mainH = None
    /\ ntool = 0
    /\ enqlog = [s \in Seats |-> <<>>]
    /\ sentActive = {}
    /\ chanlog = {}
    /\ epoch = [s \in Seats |-> 0]
    /\ status = [s \in Seats |-> <<>>]
    /\ extended = [s \in Seats |-> <<>>]
    /\ signature \in Signatures
    /\ tpos = 1
    /\ properties = <<>>
    /\ required = <<>>
    /\ schema = NoSchema

\* variant of ToolLoopPass that lists the parameters that have a default
ToolLoopPass_WithDefault ==
    /\ tpos \in DOMAIN signature
    /\ LET parameter == signature[tpos]
       IN  /\ properties' = Append(properties,
                   <<parameter.name, [type |-> type_map(parameter.hint)]>>)
           /\ required' = IF parameter.has_default
                           THEN Append(required, parameter.name)
                           ELSE required
    /\ tpos' = tpos + 1
    /\ UNCHANGED <<seatThread, inbox, messages, threads, mainpc, mainI, mainH,
                   ntool, enqlog, sentActive, chanlog, epoch, status, extended, signature, schema>>

\* one pass of `for parameter_name, parameter in signature.parameters.items()'
ToolLoopPass ==
    /\ tpos \in DOMAIN signature
    /\ LET parameter == signature[tpos]
       IN  /\ properties' = Append(properties,
                   <<parameter.name, [type |-> type_map(parameter.hint)]>>)
           /\ required' = IF ~parameter.has_default
                           THEN Append(required, parameter.name)
                           ELSE required
    /\ tpos' = tpos + 1
    /\ UNCHANGED <<seatThread, inbox, messages, threads, mainpc, mainI, mainH,
                   ntool, enqlog, sentActive, chanlog, epoch, status, extended, signature, schema>>

\* the loop is over: function.schema is assigned and tool() returns
ToolBuildSchema ==
    /\ tpos = Len(signature) + 1
    /\ schema = NoSchema
    /\ schema' = [type |-> "function",
                  function |-> [parameters |-> [type |-> "object",
                                                properties |-> properties,
                                                required |-> required]]]
    /\ tpos' = 0
    /\ UNCHANGED <<seatThread, inbox, messages, threads, mainpc, mainI, mainH,
                   ntool, enqlog, sentActive, chanlog, epoch, status, extended,
                   signature, properties, required>>

ToolNext ==
    \/ ToolLoopPass
    \/ ToolBuildSchema

ToolSpec == ToolInit /\ [][ToolNext]_vars

\* ------------------------------------------------------ shared vocabulary
\* a caller of Agency.run for seat s is between creating the Thread and
\* starting it
RunPending(s) ==
    \/ mainpc = "run_start" /\ s = MainAgent
    \/ \E u \in DOMAIN threads :
         threads[u].pc = "run_start" /\ threads[u].targets[threads[u].si] = s

\* the loops of seat s that were started and have not ended
LiveLoops(s) ==
    { t \in DOMAIN threads : threads[t].seat = s /\ threads[t].pc \in LoopPcs \cup {"finish"} }

\* every thread has ended (or was never started) and the main thread has
\* left __exit__
Quiescent ==
    /\ mainpc \in {"exited", "exit_raised"}
    /\ \A t \in DOMAIN threads : threads[t].pc \in {"new", "done", "raised"}

\* the transcript of seat s holds a notification turn for (sender, body)
Notified(s, sender, body) ==
    \E i \in DOMAIN messages[s] :
        /\ messages[s][i].role = "user"
        /\ messages[s][i].sender = sender
        /\ messages[s][i].body = body

\* the transcript of seat s holds a tool-result turn for correlation id
HasToolResult(s, id) ==
    \E i \in DOMAIN messages[s] :
        messages[s][i].role = "tool" /\ messages[s][i].tool_call_id = id

\* ---------------------------------------------------------------- C1
\* C1: deliveries that find the same seat idle in the same idle period
\* start exactly one loop for it: once no caller is still inside
\* Agency.run for the seat, one and only one of the Threads created for that
\* idle period has been started.
C1_ExactlyOneActivation ==
    \A t \in DOMAIN threads :
        LET s == threads[t].seat
            started == { u \in DOMAIN threads :
                           /\ threads[u].seat = s
                           /\ threads[u].obs = threads[t].obs
                           /\ threads[u].pc # "new" }
        IN  /\ Cardinality(started) <= 1
            /\ ~RunPending(s) => Cardinality(started) >= 1

\* ---------------------------------------------------------------- C2
\* C2: a delivery that found the seat active and returned "Message sent"
\* is not lost: when every loop has ended, and none was ended by an
\* exception, its message is in the recipient's transcript as a user turn.
NoFault == \A t \in DOMAIN threads : threads[t].fault = "none"

C2_ActiveDeliveryDrained ==
    (Quiescent /\ NoFault) =>
        \A d \in sentActive :
            \E i \in DOMAIN messages[d[1]] :
                messages[d[1]][i].role = "user" /\ messages[d[1]][i].body = d[2]

\* ---------------------------------------------------------------- C3
\* C3: a tool callable that raises does not abort the loop: the thread is
\* not ended by the fault and the transcript holds a tool-result turn with
\* the correlation id of the failing invocation.
C3_ToolFaultCaught ==
    \A t \in DOMAIN threads :
        threads[t].fault = "tool" =>
            /\ threads[t].pc # "raised"
            /\ HasToolResult(threads[t].seat, threads[t].ids[threads[t].ci])

\* ---------------------------------------------------------------- C4
\* C4: arguments of a known tool that fail to parse do not propagate out
\* of the loop: the thread is not ended by the parse failure and the
\* transcript holds a tool-result turn for that invocation.
C4_BadArgumentsRecorded ==
    \A t \in DOMAIN threads :
        threads[t].fault = "args" =>
            /\ threads[t].pc # "raised"
            /\ HasToolResult(threads[t].seat, threads[t].ids[threads[t].ci])

\* ---------------------------------------------------------------- C5
\* C5: when __exit__ has returned, no seat has a running-handle and no
\* loop is executing (stated for the runs in which no exception ended a
\* thread).
C5_ShutdownLeavesAllIdle ==
    (mainpc = "exited" /\ NoFault) =>
        \A s \in Seats : seatThread[s] = None /\ LiveLoops(s) = {}

\* ---------------------------------------------------------------- C6
\* C6: no message leaves a mailbox without having been appended to the
\* transcript: every (sender, body) ever enqueued for a seat is still in
\* its inbox or is a user turn of its transcript.
C6_DrainLosesNothing ==
    \A s \in Seats : \A i \in DOMAIN enqlog[s] :
        \/ \E j \in DOMAIN inbox[s] : inbox[s][j] = enqlog[s][i]
        \/ Notified(s, enqlog[s][i][1], enqlog[s][i][2])

\* ---------------------------------------------------------------- C7
\* C7: outside the two statements of Agency.run that create and start the
\* Thread, a seat's running-handle is present iff a loop of the seat is
\* active.
C7_HandleIffLoopActive ==
    \A s \in Seats :
        ~RunPending(s) => ((seatThread[s] # None) <=> (LiveLoops(s) # {}))

\* ---------------------------------------------------------------- C8
\* C8: for every agent at most one backend call or tool execution is in
\* flight.
InFlight(s) ==
    { t \in DOMAIN threads :
        threads[t].seat = s /\ threads[t].pc \in {"await", "dispatch"} \cup SendPcs }

C8_OneInFlightPerAgent ==
    \A s \in Seats : Cardinality(InFlight(s)) <= 1

\* ---------------------------------------------------------------- C9
\* who a recipient string of a sender stands for: the agent with that id,
\* or the agents other than the sender that carry the channel tag
OtherMembers(channel, sender) ==
    { s \in Seats : channel \in AgentTags[s] /\ s # sender }

Deliverable(recipient, sender) ==
    IF recipient[1] = "#" THEN OtherMembers(Tail(recipient), sender) # {}
    ELSE \E s \in Seats : AgentId[s] = recipient

\* the step appended, to the transcript of seat s, a tool-result turn for
\* correlation id whose content is one of the two not-found strings
AppendsNotFound(s, id) ==
    /\ Len(messages'[s]) = Len(messages[s]) + 1
    /\ messages'[s][Len(messages'[s])].role = "tool"
    /\ messages'[s][Len(messages'[s])].tool_call_id = id
    /\ messages'[s][Len(messages'[s])].content.kind \in {"agent_not_found", "channel_not_found"}

\* the recipient string a not-found string was made from
NamedRecipient(content) ==
    IF content.kind = "channel_not_found" THEN <<"#">> \o content.channel
    ELSE content.recipient

\* C9: a delivery to an agent id without seat, or to a channel without
\* member other than the sender, never reaches the enqueue loop; a step
\* that returns a not-found string is about such a recipient and changes no
\* mailbox, no running-handle and creates no thread.
C9_NotFoundChangesNothing ==
    [][\A t \in DOMAIN threads :
         threads[t].pc = "dispatch" =>
           LET s == threads[t].seat
               id == threads[t].ids[threads[t].ci]
           IN  /\ threads'[t].pc = "send_append" =>
                     Deliverable(threads'[t].rcpt, s)
               /\ AppendsNotFound(s, id) =>
                     /\ ~Deliverable(NamedRecipient(messages'[s][Len(messages'[s])].content), s)
                     /\ inbox' = inbox
                     /\ enqlog' = enqlog
                     /\ seatThread' = seatThread
                     /\ Len(threads') = Len(threads)
                     /\ \A u \in DOMAIN threads : u # t => threads'[u] = threads[u]
      ]_vars

\* reached: one transcript holds the not-found result of a delivery to an
\* unknown agent id and that of a delivery to a channel whose only member
\* is the sender
C9_Witness ==
    \E s \in Seats :
        /\ \E i \in DOMAIN messages[s] :
             /\ messages[s][i].role = "tool"
             /\ messages[s][i].content = AgentNotFound(<<"zz">>)
        /\ \E i \in DOMAIN messages[s] :
             /\ messages[s][i].role = "tool"
             /\ messages[s][i].content.kind = "channel_not_found"
             /\ s \in { m \in Seats : messages[s][i].content.channel \in AgentTags[m] }

\* ---------------------------------------------------------------- C10
Count(seq, e) == Cardinality({ i \in DOMAIN seq : seq[i] = e })

\* the channel delivery d is over: no thread is inside that call
DeliveryOver(d) ==
    ~ \E t \in DOMAIN threads :
          threads[t].pc \in SendPcs /\ BodyOf(threads[t]) = d.body

\* C10: once a channel delivery from A is over, every member of the
\* channel other than A has got exactly one (A, body) entry and nobody
\* else has got one, every member has had a loop started (or is being
\* started by a caller inside Agency.run), and A's transcript holds the
\* status naming exactly those members and their count.
C10_ChannelDelivery ==
    \A d \in chanlog :
        LET members == OtherMembers(d.channel, d.from)
        IN  DeliveryOver(d) =>
              /\ \A s \in Seats :
                   Count(enqlog[s], <<d.from, d.body>>) = IF s \in members THEN 1 ELSE 0
              /\ \A m \in members :
                   \/ RunPending(m)
                   \/ \E t \in DOMAIN threads : threads[t].seat = m /\ threads[t].pc # "new"
              /\ \E i \in DOMAIN messages[d.from] :
                   /\ messages[d.from][i].role = "tool"
                   /\ messages[d.from][i].tool_call_id = d.body
                   /\ messages[d.from][i].content.kind = "sent_channel"
                   /\ messages[d.from][i].content.count = Cardinality(members)
                   /\ Range(messages[d.from][i].content.names) = { AgentName[m] : m \in members }

\* ---------------------------------------------------------------- C11
\* the invocation `id' of seat s was answered with an "Unknown tool" turn
UnknownResult(s, id) ==
    \E i \in DOMAIN messages[s] :
        /\ messages[s][i].role = "tool"
        /\ messages[s][i].tool_call_id = id
        /\ messages[s][i].content.kind = "unknown_tool"

\* C11: a reply that invokes an unknown tool does not abort the loop: the
\* thread handling a reply one of whose invocations was answered with an
\* "Unknown tool" turn goes on through the remaining invocations to the
\* next backend request, it is never ended by an exception.
C11_UnknownToolNotFatal ==
    \A t \in DOMAIN threads :
        (\E i \in DOMAIN threads[t].ids :
             UnknownResult(threads[t].seat, threads[t].ids[i]))
            => threads[t].pc # "raised"

\* ---------------------------------------------------------------- C12
\* C12: an activation whose first reply has no tool invocations ends after
\* exactly one backend round trip.  The step that receives the reply
\* appends exactly that reply to the transcript, calls on_message (once,
\* the second hook after the one on_before_iteration) and returns from
\* Agent.run; from then on the thread issues no request, calls no hook and
\* appends nothing, in particular no tool-result turn.
C12_FinalReplyEndsActivation ==
    [][\A t \in DOMAIN threads :
          LET r == threads[t]
              q == threads'[t]
              s == r.seat
          IN  /\ ( /\ r.pc = "await"
                   /\ r.hooks = <<"before">>
                   /\ q # r
                   /\ Len(messages'[s]) = Len(messages[s]) + 1
                   /\ messages'[s][Len(messages'[s])].role = "assistant"
                   /\ messages'[s][Len(messages'[s])].tool_calls = <<>> )
                 => /\ messages' = [messages EXCEPT ![s] = Append(@, AssistantTurn(<<>>))]
                    /\ q.hooks = <<"before", "message">>
                    /\ q.pc = "finish"
                    /\ q.fault = "none"
              /\ ( /\ r.pc \in {"finish", "done"}
                   /\ r.hooks = <<"before", "message">> )
                 => /\ q.pc \in {"finish", "done"}
                    /\ q.hooks = r.hooks
                    /\ (q # r => messages' = messages)
      ]_vars

\* a loop has ended after a single round trip whose reply is the last turn
\* of a transcript without tool-result turn
C12_Witness ==
    \E t \in DOMAIN threads :
        LET s == threads[t].seat
        IN  /\ threads[t].pc = "done"
            /\ threads[t].hooks = <<"before", "message">>
            /\ messages[s] # <<>>
            /\ messages[s][Len(messages[s])] = AssistantTurn(<<>>)
            /\ \A i \in DOMAIN messages[s] : messages[s][i].role # "tool"

\* ---------------------------------------------------------------- C13
\* C13: a point-to-point delivery that found the recipient's seat idle and
\* created its loop has enqueued (sender, body), and once that loop has
\* issued its first backend request the message is a user turn of the
\* recipient's transcript.
C13_IdleDeliveryInFirstRequest ==
    \A t \in DOMAIN threads :
        LET r == threads[t]
        IN  (r.cause # <<>> /\ ~StartsWithHash(r.cause[3]))
            => /\ \E i \in DOMAIN enqlog[r.seat] :
                       enqlog[r.seat][i] = <<r.cause[1], r.cause[2]>>
               /\ r.hooks # <<>> => Notified(r.seat, r.cause[1], r.cause[2])

\* ---------------------------------------------------------------- C14
\* the names of the parameters of sig that have no default value, in
\* declaration order
RECURSIVE NoDefault(_)
NoDefault(sig) ==
    IF sig = <<>> THEN <<>>
    ELSE IF sig[1].has_default THEN NoDefault(Tail(sig))
         ELSE <<sig[1].name>> \o NoDefault(Tail(sig))

\* C14: the `required' list of the schema tool() gives a callable holds
\* exactly the parameters that have no default value, in declaration order.
C14_RequiredIsNoDefault ==
    schema # NoSchema =>
        schema.function.parameters.required = NoDefault(signature)

\* a schema built for a callable with two parameters without default and
\* one with a default
C14_Witness ==
    /\ schema # NoSchema
    /\ Len(signature) = 3
    /\ Len(schema.function.parameters.required) = 2
    /\ \E i \in DOMAIN signature : signature[i].has_default

\* ---------------------------------------------------------------- C15
\* the step appends a notification turn to the transcript of seat s
NotificationAppended(s) ==
    /\ Len(messages'[s]) = Len(messages[s]) + 1
    /\ messages'[s][Len(messages'[s])].role = "user"

\* the loop thread r has drained the mailbox and not yet issued the
\* request of the iteration
BetweenDrainAndRequest(r) == r.pc = "clear"

\* the loop thread r has appended a reply that requests tools and not yet
\* the tool-result turn of its last invocation
BetweenReplyAndLastResult(r) == r.pc \in {"dispatch"} \cup SendPcs

\* C15: mail becomes visible only at a before-iteration boundary: no step
\* appends a notification turn to an agent's transcript while a loop of
\* that agent is between its drain and its backend request, or between a
\* tool-requesting reply and the last tool-result turn of that reply.
C15_VisibleOnlyAtBoundary ==
    [][\A s \in Seats :
          NotificationAppended(s) =>
              \A u \in DOMAIN threads :
                  threads[u].seat = s =>
                      /\ ~BetweenDrainAndRequest(threads[u])
                      /\ ~BetweenReplyAndLastResult(threads[u])
      ]_vars

\* ---------------------------------------------------------------- C20
\* the notification turns of seat s made from the mailbox entry e
TurnsOf(s, e) ==
    { i \in DOMAIN messages[s] :
          messages[s][i].role = "user" /\ messages[s][i] = UserTurn(e[1], e[2]) }

\* C20: no (sender, body) entry enqueued for a seat produces two user
\* turns in the transcript of its agent.
C20_InsertedAtMostOnce ==
    \A s \in Seats : \A i \in DOMAIN enqlog[s] :
        Cardinality(TurnsOf(s, enqlog[s][i])) <= 1

\* ---------------------------------------------------------------- C19
\* the hooks h of one activation are in the order of the loop: it starts
\* with on_before_iteration, every on_before_iteration is followed by
\* on_after_iteration or by on_message, every on_after_iteration by
\* on_before_iteration, and nothing follows on_message
HookOrder(h) ==
    /\ h # <<>> => h[1] = "before"
    /\ \A i \in 1..(Len(h) - 1) :
           /\ h[i] = "before" => h[i + 1] \in {"after", "message"}
           /\ h[i] = "after" => h[i + 1] = "before"
           /\ h[i] # "message"

\* C19: within one activation on_before_iteration precedes every backend
\* request, on_after_iteration is called once when all invocations of a
\* tool-requesting reply are processed and before the next
\* on_before_iteration, and on_message is called once, for the final reply,
\* and is the last hook.
C19_HookOrder ==
    \A t \in DOMAIN threads :
        LET r == threads[t]
            last == r.hooks[Len(r.hooks)]
        IN  /\ HookOrder(r.hooks)
            /\ r.pc = "new" => r.hooks = <<>>
            /\ r.pc \in {"await", "dispatch", "raised"} \cup SendPcs
                   => r.hooks # <<>> /\ last = "before"
            /\ (r.pc \in {"drain", "clear"} /\ r.hooks # <<>>) => last = "after"
            /\ r.pc \in {"finish", "done"} => r.hooks # <<>> /\ last = "message"

\* a loop has ended after two tool-requesting replies and a final one
C19_Witness ==
    \E t \in DOMAIN threads :
        /\ threads[t].pc = "done"
        /\ threads[t].hooks = <<"before", "after", "before", "after", "before", "message">>

\* ---------------------------------------------------------------- C16
\* positions of the tool-result turns of seat s that carry the id
ResultsOf(s, id) ==
    { q \in DOMAIN messages[s] :
          messages[s][q].role = "tool" /\ messages[s][q].tool_call_id = id }

\* every invocation of every assistant turn of the transcript of seat s has
\* exactly one tool-result turn, after the reply, and the results of one
\* reply are in the order of its invocations
ToolResultsComplete(s) ==
    \A p \in DOMAIN messages[s] :
        messages[s][p].role = "assistant" =>
            LET ids == messages[s][p].tool_calls
            IN  /\ \A j \in DOMAIN ids :
                       /\ Cardinality(ResultsOf(s, ids[j])) = 1
                       /\ \A q \in ResultsOf(s, ids[j]) : q > p
                /\ \A j, k \in DOMAIN ids :
                       j < k => \A q \in ResultsOf(s, ids[j]) :
                                    \A q2 \in ResultsOf(s, ids[k]) : q < q2

\* C16: at every backend request of a loop, each tool invocation of each
\* assistant turn of the transcript sent has exactly one tool-result turn
\* with its correlation id, the results of one reply following it in the
\* order of its invocations.
C16_ResultsCompleteAtRequest ==
    [][\A t \in DOMAIN threads :
          (threads[t].pc = "clear" /\ threads'[t].pc = "await")
              => ToolResultsComplete(threads[t].seat)
      ]_vars

\* ---------------------------------------------------------------- C17
\* C17: mailbox entries reach the transcript in insertion order: when an
\* entry enqueued for a seat has a user turn in the transcript, every entry
\* enqueued for the seat before it has a user turn at an earlier position.
C17_InsertionOrder ==
    \A s \in Seats : \A i, j \in DOMAIN enqlog[s] :
        i < j =>
            \A q \in TurnsOf(s, enqlog[s][j]) :
                \E p \in TurnsOf(s, enqlog[s][i]) : p < q

\* ---------------------------------------------------------------- C18
\* the loop thread r is inside a SendMessage call addressed to its own agent
SelfSend(r) == r.pc \in SendPcs /\ r.rcpt = AgentId[r.seat]

\* C18: a running agent that sends to its own id is handled by the
\* point-to-point rules: the append step puts (agent, body) into its own
\* mailbox; the check finds the seat active, so no second loop is created,
\* and the call returns the 'Message sent' status as the tool result; and
\* when the loop issues its next backend request, every message it has
\* sent to itself is a user turn of its transcript.
C18_SelfDelivery ==
    [][\A t \in DOMAIN threads :
          LET r == threads[t]
              q == threads'[t]
              s == r.seat
          IN  /\ (SelfSend(r) /\ r.pc = "send_append" /\ q # r)
                     => inbox'[s] = Append(inbox[s], <<s, BodyOf(r)>>)
              /\ (SelfSend(r) /\ r.pc = "send_check" /\ q # r)
                     => /\ q.pc \notin {"run_create", "run_start", "raised"}
                        /\ Len(threads') = Len(threads)
                        /\ messages'[s] = Append(messages[s],
                               ToolTurn(r.ids[r.ci], SentToAgent(s)))
              /\ (r.pc = "clear" /\ q.pc = "await")
                     => \A body \in r.own : Notified(s, s, body)
      ]_vars

\* ---------------------------------------------------------------- C21
\* a call of on_agent_status_change for seat s is still to come: a thread
\* has started or is starting a loop of s and has not reported it, or a
\* loop of s has cleared the handle and has not reported it
StatusPending(s) ==
    \/ RunPending(s)
    \/ mainpc = "run_status" /\ s = MainAgent
    \/ \E u \in DOMAIN threads :
           \/ threads[u].pc = "run_status" /\ threads[u].targets[threads[u].si] = s
           \/ threads[u].pc = "idle_status" /\ threads[u].seat = s

\* the status last reported for seat s; idle before the first event
ReportedActive(s) == status[s] # <<>> /\ status[s][Len(status[s])]

\* a loop of seat s is running
LoopRunning(s) ==
    \E t \in DOMAIN threads :
        threads[t].seat = s /\ threads[t].pc \in LoopPcs \cup {"run_status", "finish"}

\* C21: the status-change events of a seat alternate, starting with
\* 'became active', and when no event of the seat is pending the status
\* last reported is the real one: active iff a loop of the seat is running.
C21_StatusEventsAlternate ==
    \A s \in Seats :
        /\ \A i \in DOMAIN status[s] : status[s][i] = (i % 2 = 1)
        /\ ~StatusPending(s) => (ReportedActive(s) <=> LoopRunning(s))

\* ---------------------------------------------------------------- C22
\* C22: __exit__ never raises, whether no seat is active or a loop ends
\* and clears its handle between the check of the handle and the join.
C22_ShutdownNeverRaises == mainpc # "exit_raised"

\* ---------------------------------------------------------------- C23
\* C23: the clone that runs an activation has the identity of the
\* registered agent: its id is the id of the seat's agent, under which
\* other agents address it.
C23_CloneKeepsIdentity ==
    \A s \in Seats : \A i \in DOMAIN extended[s] :
        extended[s][i].id = AgentId[s]

====
